---- MODULE Spec2Model ----
(***************************************************************************)
(* Model of src/ascii.rs: the 7-bit `Ascii` character type, its checked    *)
(* constructors (Ascii::from_byte, Ascii::from, IntoAscii for u8 / char),  *)
(* its extractors (as_byte, as_char), the ctype-like predicates and the    *)
(* AsciiExt case conversions.                                              *)
(*                                                                         *)
(* An `Ascii` value is modelled by the name of its enum variant; its       *)
(* discriminant comes from the table of the enum declaration.  A `u8` is   *)
(* an integer of 0..255, a `char` is its code point.                       *)
(***************************************************************************)
EXTENDS Integers, FiniteSets, Sequences, TLC

\* Largest code point of the contiguous block of `char` inputs explored
\* (further code points are listed in ExtraChars).
MaxChar == 140

(***************************************************************************)
(* Primitive types                                                         *)
(***************************************************************************)

\* The values of a u8.
Bytes == 0..255

\* `x as u8` on a wider unsigned integer: keeps the low 8 bits.
as_u8(n) == n % 256

\* A difference taken without the 8-bit wraparound.
wrapping_sub_signed(a, b) == a - b

\* u8::wrapping_sub
wrapping_sub(a, b) == (a - b + 256) % 256

\* The `|` operator on u8.
RECURSIVE BitOr(_, _)
BitOr(a, b) ==
    IF a = 0 THEN b
    ELSE IF b = 0 THEN a
    ELSE 2 * BitOr(a \div 2, b \div 2) + (IF a % 2 = 1 \/ b % 2 = 1 THEN 1 ELSE 0)

\* Code points beyond MaxChar that the constructors are tried on: values
\* whose low 8 bits are ASCII (U+0100, U+0141, U+017F, U+2641), the Greek
\* lambda of the tests (U+03BB), and the edges of the scalar value ranges.
ExtraChars == {256, 321, 383, 955, 9793, 55295, 57344, 65535, 65536, 1114111}

\* The `char` inputs explored: Unicode scalar values (no surrogates).
Chars == ((0..MaxChar) \cup ExtraChars) \ (55296..57343)

(***************************************************************************)
(* enum Ascii, #[repr(u8)]                                                 *)
(***************************************************************************)

\* The explicit discriminant of every variant of `enum Ascii`.
discriminant ==
    "Null" :> 0 @@ "SOH" :> 1 @@ "SOX" :> 2 @@ "ETX" :> 3 @@ "EOT" :> 4 @@ "ENQ" :> 5 @@
    "ACK" :> 6 @@ "Bell" :> 7 @@ "BackSpace" :> 8 @@ "Tab" :> 9 @@ "LineFeed" :> 10 @@ "VT" :> 11 @@
    "FF" :> 12 @@ "CarriageReturn" :> 13 @@ "SI" :> 14 @@ "SO" :> 15 @@ "DLE" :> 16 @@ "DC1" :> 17 @@
    "DC2" :> 18 @@ "DC3" :> 19 @@ "DC4" :> 20 @@ "NAK" :> 21 @@ "SYN" :> 22 @@ "ETB" :> 23 @@
    "CAN" :> 24 @@ "EM" :> 25 @@ "SUB" :> 26 @@ "ESC" :> 27 @@ "FS" :> 28 @@ "GS" :> 29 @@
    "RS" :> 30 @@ "US" :> 31 @@ "Space" :> 32 @@ "Exclamation" :> 33 @@ "Quotation" :> 34 @@ "Hash" :> 35 @@
    "Dollar" :> 36 @@ "Percent" :> 37 @@ "Ampersand" :> 38 @@ "Apostrophe" :> 39 @@ "ParenOpen" :> 40 @@ "ParenClose" :> 41 @@
    "Asterisk" :> 42 @@ "Plus" :> 43 @@ "Comma" :> 44 @@ "Minus" :> 45 @@ "Dot" :> 46 @@ "Slash" :> 47 @@
    "_0" :> 48 @@ "_1" :> 49 @@ "_2" :> 50 @@ "_3" :> 51 @@ "_4" :> 52 @@ "_5" :> 53 @@
    "_6" :> 54 @@ "_7" :> 55 @@ "_8" :> 56 @@ "_9" :> 57 @@ "Colon" :> 58 @@ "SemiColon" :> 59 @@
    "LessThan" :> 60 @@ "Equal" :> 61 @@ "GreaterThan" :> 62 @@ "Question" :> 63 @@ "At" :> 64 @@ "A" :> 65 @@
    "B" :> 66 @@ "C" :> 67 @@ "D" :> 68 @@ "E" :> 69 @@ "F" :> 70 @@ "G" :> 71 @@
    "H" :> 72 @@ "I" :> 73 @@ "J" :> 74 @@ "K" :> 75 @@ "L" :> 76 @@ "M" :> 77 @@
    "N" :> 78 @@ "O" :> 79 @@ "P" :> 80 @@ "Q" :> 81 @@ "R" :> 82 @@ "S" :> 83 @@
    "T" :> 84 @@ "U" :> 85 @@ "V" :> 86 @@ "W" :> 87 @@ "X" :> 88 @@ "Y" :> 89 @@
    "Z" :> 90 @@ "BracketOpen" :> 91 @@ "BackSlash" :> 92 @@ "BracketClose" :> 93 @@ "Caret" :> 94 @@ "UnderScore" :> 95 @@
    "Grave" :> 96 @@ "a" :> 97 @@ "b" :> 98 @@ "c" :> 99 @@ "d" :> 100 @@ "e" :> 101 @@
    "f" :> 102 @@ "g" :> 103 @@ "h" :> 104 @@ "i" :> 105 @@ "j" :> 106 @@ "k" :> 107 @@
    "l" :> 108 @@ "m" :> 109 @@ "n" :> 110 @@ "o" :> 111 @@ "p" :> 112 @@ "q" :> 113 @@
    "r" :> 114 @@ "s" :> 115 @@ "t" :> 116 @@ "u" :> 117 @@ "v" :> 118 @@ "w" :> 119 @@
    "x" :> 120 @@ "y" :> 121 @@ "z" :> 122 @@ "CurlyBraceOpen" :> 123 @@ "VerticalBar" :> 124 @@ "CurlyBraceClose" :> 125 @@
    "Tilde" :> 126 @@ "DEL" :> 127

\* The type Ascii: its 128 variants.
Ascii == DOMAIN discriminant

\* The variant whose discriminant is b, for the 128 discriminants.
variant_of == [b \in 0..127 |-> CHOOSE v \in Ascii : discriminant[v] = b]

\* The call aborts: a build with debug assertions panics, "trying to
\* construct an enum from an invalid value".
Abort == "<abort>"

\* A value of type Ascii that is no variant of the enum.  Nothing is known
\* of it: what any operation on it gives is not defined.
Undef == "<undef>"

\* The outcomes of undefined behaviour: which of them a run takes depends
\* on the build.
Undefined == {Abort, Undef}

\* std::mem::transmute::<u8, Ascii>: the set of its outcomes.  A byte that
\* is the discriminant of a variant gives that variant; any other byte is
\* undefined behaviour.
transmute(b) == IF b \in 0..127 THEN {variant_of[b]} ELSE Undefined

\* Derived PartialEq / Eq on the enum: same variant.
Ascii_eq(x, y) == x = y

\* Derived PartialOrd / Ord on the enum: order of the discriminants.
Ascii_le(x, y) == discriminant[x] <= discriminant[y]

Ascii_ge(x, y) == discriminant[x] >= discriminant[y]

(***************************************************************************)
(* Result<Ascii, E>                                                        *)
(***************************************************************************)

Ok(v) == [tag |-> "Ok", val |-> v]

Err(e) == [tag |-> "Err", err |-> e]

\* The call that was to return the Result aborted.
Aborted == [tag |-> "Abort"]

\* Ok(..) of every outcome of an unchecked conversion.
OkOf(S) == {IF v = Abort THEN Aborted ELSE Ok(v) : v \in S}

\* Result::map_err(|_| ())
map_err_unit(r) == IF r.tag = "Err" THEN Err("()") ELSE r

(***************************************************************************)
(* Unchecked conversions (unsafe fn): the set of their outcomes            *)
(***************************************************************************)

\* <u8 as AsciiCast>::to_ascii_nocheck
u8_to_ascii_nocheck(b) == transmute(b)

\* <char as AsciiCast>::to_ascii_nocheck
char_to_ascii_nocheck(c) == u8_to_ascii_nocheck(as_u8(c))

\* <u8 as IntoAscii>::into_ascii_unchecked
u8_into_ascii_unchecked(b) == transmute(b)

\* <char as IntoAscii>::into_ascii_unchecked
char_into_ascii_unchecked(c) == u8_into_ascii_unchecked(as_u8(c))

(***************************************************************************)
(* Checked conversions: the set of their outcomes, one outcome unless the  *)
(* unchecked conversion they call is undefined                             *)
(***************************************************************************)

\* from_byte with the bound test off by one.
from_byte_strict(ch) ==
    IF ch < 127 THEN OkOf(u8_to_ascii_nocheck(ch)) ELSE {Err("()")}

\* Ascii::from_byte
from_byte(ch) ==
    IF ch <= 127 THEN OkOf(u8_to_ascii_nocheck(ch)) ELSE {Err("()")}

\* into_ascii on u8 with the bound test off by one.
u8_into_ascii_strict(b) ==
    IF b < 127 THEN OkOf(u8_into_ascii_unchecked(b)) ELSE {Err("IntoAsciiError")}

\* <u8 as IntoAscii>::into_ascii
u8_into_ascii(b) ==
    IF b <= 127 THEN OkOf(u8_into_ascii_unchecked(b)) ELSE {Err("IntoAsciiError")}

\* into_ascii on char with the test made on the value truncated to u8.
char_into_ascii_truncated(c) ==
    IF as_u8(c) <= 127 THEN OkOf(char_into_ascii_unchecked(c)) ELSE {Err("IntoAsciiError")}

\* <char as IntoAscii>::into_ascii: the test is on `self as u32`.
char_into_ascii(c) ==
    IF c <= 127 THEN OkOf(char_into_ascii_unchecked(c)) ELSE {Err("IntoAsciiError")}

\* <Ascii as IntoAscii>::into_ascii
Ascii_into_ascii(x) == {Ok(x)}

\* Ascii::from::<u8>
Ascii_from_u8(b) == {map_err_unit(r) : r \in u8_into_ascii(b)}

\* Ascii::from::<char>
Ascii_from_char(c) == {map_err_unit(r) : r \in char_into_ascii(c)}

\* Ascii::as_byte: `*self as u8`.
as_byte(x) == discriminant[x]

\* Ascii::as_char: `self.as_byte() as char`.
as_char(x) == as_byte(x)

(***************************************************************************)
(* Classification                                                          *)
(***************************************************************************)

\* is_alphabetic with the lower bound off by one.
is_alphabetic_wide(x) ==
    LET c == BitOr(as_byte(x), 32)
    IN  c >= 96 /\ c <= 122

is_alphabetic(x) ==
    LET c == BitOr(as_byte(x), 32)
    IN  c >= 97 /\ c <= 122

\* is_digit with an exclusive upper bound.
is_digit_exclusive(x) == Ascii_ge(x, "_0") /\ ~Ascii_ge(x, "_9")

is_digit(x) == Ascii_ge(x, "_0") /\ Ascii_le(x, "_9")

is_alphanumeric(x) == is_alphabetic(x) \/ is_digit(x)

is_blank(x) == Ascii_eq(x, "Space") \/ Ascii_eq(x, "Tab")

\* is_control without the DEL case.
is_control_no_del(x) == as_byte(x) < 32

is_control(x) == as_byte(x) < 32 \/ Ascii_eq(x, "DEL")

is_graph(x) == wrapping_sub(as_byte(x), 33) < 94

is_print(x) == wrapping_sub(as_byte(x), 32) < 95

is_lowercase(x) == wrapping_sub(as_byte(x), 97) < 26

is_uppercase(x) == wrapping_sub(as_byte(x), 65) < 26

is_punctuation(x) == is_graph(x) /\ ~is_alphanumeric(x)

\* is_hex without the case fold.
is_hex_no_fold(x) == is_digit(x) \/ wrapping_sub(as_byte(x), 97) < 6

is_hex(x) == is_digit(x) \/ wrapping_sub(BitOr(as_byte(x), 32), 97) < 6

\* All eleven predicates applied to one value.
ctype(x) ==
    [is_alphabetic |-> is_alphabetic(x), is_digit |-> is_digit(x),
     is_alphanumeric |-> is_alphanumeric(x), is_blank |-> is_blank(x),
     is_control |-> is_control(x), is_graph |-> is_graph(x),
     is_print |-> is_print(x), is_lowercase |-> is_lowercase(x),
     is_uppercase |-> is_uppercase(x), is_punctuation |-> is_punctuation(x),
     is_hex |-> is_hex(x)]

(***************************************************************************)
(* impl AsciiExt for Ascii                                                 *)
(***************************************************************************)

\* <u8 as AsciiExt>::to_ascii_uppercase of the standard library.
u8_to_ascii_uppercase(b) == IF b >= 97 /\ b <= 122 THEN b - 32 ELSE b

\* to_ascii_uppercase that subtracts 0x20 from every byte.
to_ascii_uppercase_always(x) == u8_to_ascii_nocheck(wrapping_sub(as_byte(x), 32))

to_ascii_uppercase(x) == u8_to_ascii_nocheck(u8_to_ascii_uppercase(as_byte(x)))

\* As in the source, the lowercase conversion calls the uppercase one.
to_ascii_lowercase(x) == u8_to_ascii_nocheck(u8_to_ascii_uppercase(as_byte(x)))

(***************************************************************************)
(* State                                                                   *)
(***************************************************************************)

VARIABLES
    a,      \* the caller's binding of the last construction: {x} when it
            \* holds the Ascii value x, {} when it holds none
    last    \* the last call: [op, arg, ret]

vars == <<a, last>>

Init ==
    /\ a = {}
    /\ last = [op |-> "none", arg |-> 0, ret |-> 0, ub |-> FALSE]

\* The caller binds the outcome of a construction, `a = r.ok()`: the value
\* of a success, nothing after an error.
Bind(r) == IF r.tag = "Ok" THEN {r.val} ELSE {}

\* A call: operation, argument, what it returned, and whether it ran into
\* undefined behaviour.
Call(op, arg, ret, ub) == [op |-> op, arg |-> arg, ret |-> ret, ub |-> ub]

\* Nothing is modelled of a run after undefined behaviour.
Alive == ~last.ub

\* The constructor `op`, called on `arg`, returns the Result r.
Returns(op, arg, r) ==
    /\ last' = Call(op, arg, r,
                    r.tag = "Abort" \/ (r.tag = "Ok" /\ r.val = Undef))
    /\ a' = Bind(r)

FromByte(b) ==
    /\ Alive
    /\ \E r \in from_byte(b) : Returns("Ascii::from_byte", b, r)

IntoAsciiU8(b) ==
    /\ Alive
    /\ \E r \in u8_into_ascii(b) : Returns("u8::into_ascii", b, r)

IntoAsciiChar(c) ==
    /\ Alive
    /\ \E r \in char_into_ascii(c) : Returns("char::into_ascii", c, r)

FromU8(b) ==
    /\ Alive
    /\ \E r \in Ascii_from_u8(b) : Returns("Ascii::from::<u8>", b, r)

FromChar(c) ==
    /\ Alive
    /\ \E r \in Ascii_from_char(c) : Returns("Ascii::from::<char>", c, r)

IntoAsciiAscii ==
    /\ Alive
    /\ \E x \in a : \E r \in Ascii_into_ascii(x) :
        Returns("Ascii::into_ascii", x, r)

AsByte ==
    /\ Alive
    /\ \E x \in a :
        /\ last' = Call("as_byte", x, as_byte(x), FALSE)
        /\ UNCHANGED a

AsChar ==
    /\ Alive
    /\ \E x \in a :
        /\ last' = Call("as_char", x, as_char(x), FALSE)
        /\ UNCHANGED a

\* Ascii::from_byte(x.as_byte()) and the IntoAscii forms of it.
RoundTripByte ==
    /\ Alive
    /\ \E x \in a, ctor \in {"Ascii::from_byte", "u8::into_ascii", "Ascii::from::<u8>"} :
        \E r \in CASE ctor = "Ascii::from_byte" -> from_byte(as_byte(x))
                  [] ctor = "u8::into_ascii" -> u8_into_ascii(as_byte(x))
                  [] OTHER -> Ascii_from_u8(as_byte(x)) :
            Returns("as_byte;" \o ctor, x, r)

\* x.as_char().into_ascii() and Ascii::from(x.as_char()).
RoundTripChar ==
    /\ Alive
    /\ \E x \in a, ctor \in {"char::into_ascii", "Ascii::from::<char>"} :
        \E r \in CASE ctor = "char::into_ascii" -> char_into_ascii(as_char(x))
                  [] OTHER -> Ascii_from_char(as_char(x)) :
            Returns("as_char;" \o ctor, x, r)

Classify ==
    /\ Alive
    /\ \E x \in a :
        /\ last' = Call("ctype", x, ctype(x), FALSE)
        /\ UNCHANGED a

ToAsciiUppercase ==
    /\ Alive
    /\ \E x \in a : \E v \in to_ascii_uppercase(x) :
        /\ last' = Call("to_ascii_uppercase", x, v, v \in Undefined)
        /\ UNCHANGED a

ToAsciiLowercase ==
    /\ Alive
    /\ \E x \in a : \E v \in to_ascii_lowercase(x) :
        /\ last' = Call("to_ascii_lowercase", x, v, v \in Undefined)
        /\ UNCHANGED a

\* `*self = self.to_ascii_uppercase()`
MakeAsciiUppercase ==
    /\ Alive
    /\ \E x \in a : \E v \in to_ascii_uppercase(x) :
        /\ a' = {v} \ {Abort}
        /\ last' = Call("make_ascii_uppercase", x, "()", v \in Undefined)

\* `*self = self.to_ascii_lowercase()`
MakeAsciiLowercase ==
    /\ Alive
    /\ \E x \in a : \E v \in to_ascii_lowercase(x) :
        /\ a' = {v} \ {Abort}
        /\ last' = Call("make_ascii_lowercase", x, "()", v \in Undefined)

Next ==
    \/ \E b \in Bytes : FromByte(b)
    \/ \E b \in Bytes : IntoAsciiU8(b)
    \/ \E c \in Chars : IntoAsciiChar(c)
    \/ \E b \in Bytes : FromU8(b)
    \/ \E c \in Chars : FromChar(c)
    \/ IntoAsciiAscii
    \/ AsByte
    \/ AsChar
    \/ RoundTripByte
    \/ RoundTripChar
    \/ Classify
    \/ ToAsciiUppercase
    \/ ToAsciiLowercase
    \/ MakeAsciiUppercase
    \/ MakeAsciiLowercase

Spec == Init /\ [][Next]_vars

\* `==`, `<=` and `>=` of the value held against another Ascii value.
Compare(y) ==
    /\ Alive
    /\ \E x \in a :
        /\ last' = Call("cmp", <<x, y>>,
                        [eq |-> Ascii_eq(x, y), le |-> Ascii_le(x, y), ge |-> Ascii_ge(x, y)],
                        FALSE)
        /\ UNCHANGED a

NextOrd ==
    \/ \E b \in Bytes : FromByte(b)
    \/ \E y \in Ascii : Compare(y)
    \/ Classify

\* Values made by Ascii::from_byte, compared pairwise and classified.
SpecOrd == Init /\ [][NextOrd]_vars

(***************************************************************************)
(* Properties                                                              *)
(***************************************************************************)

ByteCtors == {"Ascii::from_byte", "u8::into_ascii", "Ascii::from::<u8>"}

CharCtors == {"char::into_ascii", "Ascii::from::<char>"}

ByteRoundTrips == {"as_byte;Ascii::from_byte", "as_byte;u8::into_ascii",
                   "as_byte;Ascii::from::<u8>"}

CharRoundTrips == {"as_char;char::into_ascii", "as_char;Ascii::from::<char>"}

CaseOps == {"to_ascii_uppercase", "to_ascii_lowercase"}

\* Every Ascii value the state holds: the caller's binding, the value inside
\* an Ok result, the value a case conversion returned (none when it aborted).
Existing ==
    a \cup (IF last.op \in ByteCtors \cup CharCtors \cup ByteRoundTrips
                           \cup CharRoundTrips \cup {"Ascii::into_ascii"}
               /\ last.ret.tag = "Ok"
            THEN {last.ret.val} ELSE {})
      \cup (IF last.op \in CaseOps THEN {last.ret} \ {Abort} ELSE {})

\* C1: a checked construction from a byte b succeeds iff b <= 127; the value
\* of a success has as_byte() = b; for b in 128..255 the result is the error
\* and no Ascii value comes out of it.
C1_ByteConstruction ==
    last.op \in ByteCtors =>
        /\ (last.ret.tag = "Ok") <=> (last.arg <= 127)
        /\ last.ret.tag = "Ok" =>
              /\ last.ret.val \in Ascii
              /\ as_byte(last.ret.val) = last.arg
              /\ a = {last.ret.val}
        /\ last.arg >= 128 =>
              /\ last.ret.tag = "Err"
              /\ DOMAIN last.ret = {"tag", "err"}
              /\ a = {}

C1_Witness ==
    /\ last.op = "Ascii::from_byte"
    /\ last.arg = 127
    /\ last.ret = Ok("DEL")
    /\ ~last.ub

\* C2: a checked construction from a char c succeeds iff its code point is
\* <= 127, and then as_byte() is that code point; every code point >= 128 is
\* the error, also when its low 8 bits are <= 127.
C2_CharConstruction ==
    last.op \in CharCtors =>
        /\ (last.ret.tag = "Ok") <=> (last.arg <= 127)
        /\ last.ret.tag = "Ok" =>
              /\ last.ret.val \in Ascii
              /\ as_byte(last.ret.val) = last.arg
        /\ last.arg >= 128 => last.ret.tag = "Err" /\ a = {}

C2_Witness ==
    /\ last.op = "char::into_ascii"
    /\ last.arg = 321
    /\ as_u8(last.arg) <= 127
    /\ last.ret.tag = "Err"

\* C3: constructing from the byte, or from the char, extracted from an Ascii
\* value x gives Ok(x).
C3_RoundTrip ==
    last.op \in ByteRoundTrips \cup CharRoundTrips =>
        /\ last.arg \in Ascii
        /\ last.ret.tag = "Ok"
        /\ last.ret.val = last.arg

C3_Witness ==
    /\ last.op = "as_byte;u8::into_ascii"
    /\ last.arg = "DEL"
    /\ last.ret.tag = "Ok"

\* C4: after any sequence of the safe operations, every Ascii value in
\* existence is a variant of the enum and its byte is in 0..127 (highest bit
\* zero).
C4_RangeInvariant ==
    \A x \in Existing :
        /\ x \in Ascii
        /\ as_byte(x) \in 0..127
        /\ as_byte(x) \div 128 = 0

C4_Witness ==
    /\ last.op = "make_ascii_uppercase"
    /\ last.arg = "z"
    /\ a = {"Z"}

\* What C5 requires of the lowercase of a byte.
LowercaseOf(b) == IF b >= 65 /\ b <= 90 THEN b + 32 ELSE b

\* C5: to_ascii_lowercase (and make_ascii_lowercase in place) maps 'A'..'Z'
\* to 'a'..'z' and leaves every other value unchanged.
C5_LowercaseConversion ==
    /\ last.op = "to_ascii_lowercase" =>
          as_byte(last.ret) = LowercaseOf(as_byte(last.arg))
    /\ last.op = "make_ascii_lowercase" =>
          \A x \in a : as_byte(x) = LowercaseOf(as_byte(last.arg))

\* C6: equality and order of Ascii values are those of their bytes, the order
\* is total, and is_digit is true exactly for the bytes 48..57.
C6_OrderAndDigit ==
    /\ last.op = "cmp" =>
          LET x == last.arg[1]
              y == last.arg[2]
          IN  /\ last.ret.eq <=> (as_byte(x) = as_byte(y))
              /\ last.ret.le <=> (as_byte(x) <= as_byte(y))
              /\ last.ret.ge <=> (as_byte(x) >= as_byte(y))
              /\ last.ret.le \/ last.ret.ge
              /\ (last.ret.le /\ last.ret.ge) => x = y
    /\ last.op = "ctype" =>
          (last.ret.is_digit <=> (as_byte(last.arg) \in 48..57))

C6_Witness ==
    /\ last.op = "cmp"
    /\ last.arg = <<"Colon", "_9">>
    /\ last.ret.ge
    /\ ~last.ret.le
    /\ ~last.ret.eq

\* C7: the wrapping-subtraction range tests agree with the two-sided
\* comparisons: in the results of is_graph, is_print, is_lowercase and
\* is_uppercase, and as 8-bit arithmetic on every byte 0..255 given to a
\* constructor.
C7_WrappingRangeTests ==
    /\ last.op = "ctype" =>
          LET b == as_byte(last.arg)
          IN  /\ last.ret.is_graph <=> (33 <= b /\ b <= 126)
              /\ last.ret.is_print <=> (32 <= b /\ b <= 126)
              /\ last.ret.is_lowercase <=> (97 <= b /\ b <= 122)
              /\ last.ret.is_uppercase <=> (65 <= b /\ b <= 90)
    /\ last.op \in ByteCtors =>
          LET b == last.arg
          IN  /\ (wrapping_sub(b, 33) < 94) <=> (33 <= b /\ b <= 126)
              /\ (wrapping_sub(b, 32) < 95) <=> (32 <= b /\ b <= 126)
              /\ (wrapping_sub(b, 97) < 26) <=> (97 <= b /\ b <= 122)
              /\ (wrapping_sub(b, 65) < 26) <=> (65 <= b /\ b <= 90)

C7_Witness ==
    /\ last.op = "ctype"
    /\ last.arg = "Space"
    /\ wrapping_sub(as_byte(last.arg), 33) = 255
    /\ ~last.ret.is_graph
    /\ last.ret.is_print

\* C8: is_alphabetic is true for exactly 'A'..'Z' and 'a'..'z' (52 values),
\* equals is_lowercase OR is_uppercase, and those two are never both true.
C8_Alphabetic ==
    /\ last.op = "ctype" =>
          LET b == as_byte(last.arg)
          IN  /\ last.ret.is_alphabetic <=> (b \in 65..90 \/ b \in 97..122)
              /\ last.ret.is_alphabetic <=> (last.ret.is_lowercase \/ last.ret.is_uppercase)
              /\ ~(last.ret.is_lowercase /\ last.ret.is_uppercase)
    /\ Cardinality({x \in Ascii : is_alphabetic(x)}) = 52

C8_Witness ==
    /\ last.op = "ctype"
    /\ last.arg = "Grave"
    /\ ~last.ret.is_alphabetic

\* C9: is_hex is true for exactly '0'..'9', 'a'..'f' and 'A'..'F' (22 values).
C9_Hex ==
    /\ last.op = "ctype" =>
          LET b == as_byte(last.arg)
          IN  last.ret.is_hex <=> (b \in 48..57 \/ b \in 97..102 \/ b \in 65..70)
    /\ Cardinality({x \in Ascii : is_hex(x)}) = 22

C9_Witness ==
    /\ last.op = "ctype"
    /\ last.arg = "F"
    /\ last.ret.is_hex

\* C10: exactly one of is_control and is_print holds; is_print holds iff the
\* value is space or is_graph; a graphic value is exactly one of alphanumeric
\* and punctuation; 0x1F and 0x7F are control, 0x20 is printable.
C10_Partition ==
    last.op = "ctype" =>
        LET r == last.ret
            b == as_byte(last.arg)
        IN  /\ r.is_control <=> ~r.is_print
            /\ r.is_print <=> (b = 32 \/ r.is_graph)
            /\ r.is_graph => (r.is_alphanumeric <=> ~r.is_punctuation)
            /\ r.is_punctuation <=> (r.is_graph /\ ~r.is_alphanumeric)
            /\ r.is_alphanumeric <=> (r.is_alphabetic \/ r.is_digit)
            /\ b \in {31, 127} => (r.is_control /\ ~r.is_print)
            /\ b = 32 => (r.is_print /\ ~r.is_control)

C10_Witness ==
    /\ last.op = "ctype"
    /\ last.arg = "DEL"
    /\ last.ret.is_control
    /\ ~last.ret.is_print
====
